---- MODULE Spec2Model ----
(***************************************************************************)
(* A model of CppReadline::Console (src/src/Console.cpp, Console.hpp):     *)
(* the command registry and dispatcher, the script runner, the interactive *)
(* read loop, and the multiplexing of GNU readline's single process-wide   *)
(* history between several Console objects.                                *)
(*                                                                         *)
(* The program is single-threaded.  Its control state is a call stack: the *)
(* embedder calls one public member at a time, and executeFile / the `run` *)
(* built-in nest below it.  Strings are sequences of one-character         *)
(* strings, so that tokenization and the comment test are computed.        *)
(***************************************************************************)
EXTENDS Integers, Sequences, FiniteSets, TLC

(***************************************************************************)
(* Bounds of the model.                                                    *)
(***************************************************************************)
\* number of storage locations a Console object can live at
NumConsoles == 2
\* most history lines the engine and the saved states hold together
MaxHist == 2
\* longest script file, in lines
MaxFileLen == 3
\* the nesting of executeFile activations at which the process has no stack
\* or no file descriptor left for one more
MaxDepth == 2
\* most readLine activations in progress, one nested in a handler of the other
MaxNest == 2

Slots == 1..NumConsoles

\* Console * currentConsole_ = nullptr
NoConsole == 0

\* enum ReturnCode
Quit == -1
Ok == 0
Error == 1

(***************************************************************************)
(* Characters, words and lines.                                            *)
(***************************************************************************)
\* what operator>>(istream&, string&) skips: the isspace characters that can
\* occur inside a line
Whitespace == {" ", "\t"}

quit == <<"q", "u", "i", "t">>
exit == <<"e", "x", "i", "t">>
help == <<"h", "e", "l", "p">>
run == <<"r", "u", "n">>
\* names an embedder registers
foo == <<"f", "o", "o">>
bar == <<"b", "a", "r">>
\* a name nobody registers
bogus == <<"z", "z">>
\* script files: two that exist and one that does not
scriptF == <<"f">>
scriptG == <<"g">>
noFile == <<"n">>

RECURSIVE SkipWs(_)
SkipWs(s) == IF s # <<>> /\ Head(s) \in Whitespace THEN SkipWs(Tail(s)) ELSE s

RECURSIVE WordLen(_)
WordLen(s) == IF s = <<>> \/ Head(s) \in Whitespace THEN 0 ELSE 1 + WordLen(Tail(s))

\* std::copy(istream_iterator<string>(iss), istream_iterator<string>(), back_inserter(inputs))
RECURSIVE Tokenize(_)
Tokenize(s) ==
    LET r == SkipWs(s)
    IN IF r = <<>> THEN <<>>
       ELSE LET n == WordLen(r)
            IN <<SubSeq(r, 1, n)>> \o Tokenize(SubSeq(r, n + 1, Len(r)))

(***************************************************************************)
(* 32-bit integers.  An unsigned is kept as its two 16-bit halves.         *)
(***************************************************************************)
U32(hi, lo) == [hi |-> hi, lo |-> lo]

\* static_cast<int>(unsigned): the value modulo 2^32 in [-2^31, 2^31)
ToInt(u) == IF u.hi >= 32768 THEN (u.hi - 65536) * 65536 + u.lo ELSE u.hi * 65536 + u.lo

\* the conversion of an int to the unsigned a CommandFunction returns
FromInt(i) ==
    IF i >= 0 THEN U32(i \div 65536, i % 65536)
    ELSE LET j == (i + 2147483647) + 1
         IN U32((j \div 65536) + 32768, j % 65536)

(***************************************************************************)
(* Handlers: std::function<unsigned(const std::vector<std::string> &)>.    *)
(* A user handler is identified by the value it returns.                   *)
(***************************************************************************)
EmptyFn == [kind |-> "empty", rv |-> U32(0, 0)]
HelpFn == [kind |-> "help", rv |-> U32(0, 0)]
RunFn == [kind |-> "run", rv |-> U32(0, 0)]
UserFn(u) == [kind |-> "user", rv |-> u]
\* a user handler that returns what readLine() on the console at t returns
ReadFn(t) == [kind |-> "read", rv |-> U32(0, 0), on |-> t]

\* commands_({ {"quit",{}}, {"exit",{}} }); commands_["help"] = ...; commands_["run"] = ...
DefaultCommands ==
    [n \in {quit, exit, help, run} |->
        CASE n = help -> HelpFn
          [] n = run -> RunFn
          [] OTHER -> EmptyFn]

(***************************************************************************)
(* History.  A HISTORY_STATE is the entry list it describes; history_ is   *)
(* nullptr, an owned state, or a pointer left behind by free().            *)
(* An entry carries, besides its line, the owner at the time it was added  *)
(* (by), which the program does not store: the properties refer to it.     *)
(***************************************************************************)
\* void * emptyHistory_ = history_get_history_state(), taken before any line is added
emptyHistory_ == <<>>

NullSnapshot == [st |-> "null", entries |-> <<>>]

\* free(history_)
Release(h) == IF h.st = "owned" THEN [st |-> "freed", entries |-> <<>>] ELSE h

\* a saveState() that keeps a state it already owns
saveStateKeepsPrior(h, engine) ==
    IF h.st = "owned" THEN h ELSE [st |-> "owned", entries |-> engine]

\* saveState(): free(history_); history_ = history_get_history_state()
saveState(h, engine) == [st |-> "owned", entries |-> engine]

\* history_set_history_state(history_ ? history_ : emptyHistory_)
Install(h) == IF h.st = "null" THEN emptyHistory_ ELSE h.entries

\* a reserveConsole() that saves the outgoing state and takes ownership, but
\* installs nothing
reserveConsoleKeepsEngine(c, cur, hists, engine) ==
    IF cur = c
    THEN [current |-> cur, history |-> hists, engine |-> engine]
    ELSE [current |-> c,
          history |-> IF cur # NoConsole
                      THEN [hists EXCEPT ![cur] = [st |-> "owned", entries |-> engine]]
                      ELSE hists,
          engine |-> engine]

\* a reserveConsole() without the early return: the owner saves and reinstalls
\* its own state
reserveConsoleAlwaysSwaps(c, cur, hists, engine) ==
    LET saved == IF cur # NoConsole
                 THEN [hists EXCEPT ![cur] = saveState(hists[cur], engine)]
                 ELSE hists
    IN [current |-> c, history |-> saved, engine |-> Install(saved[c])]

\* a reserveConsole() that takes the engine only when nobody holds it
reserveConsoleIfFree(c, cur, hists, engine) ==
    IF cur # NoConsole
    THEN [current |-> cur, history |-> hists, engine |-> engine]
    ELSE [current |-> c, history |-> hists, engine |-> Install(hists[c])]

\* reserveConsole() called on c, as a function of currentConsole_, every
\* console's history_ and the engine's history
reserveConsole(c, cur, hists, engine) ==
    IF cur = c
    THEN [current |-> cur, history |-> hists, engine |-> engine]
    ELSE LET saved == IF cur # NoConsole
                      THEN [hists EXCEPT ![cur] = saveState(hists[cur], engine)]
                      ELSE hists
         IN [current |-> c, history |-> saved, engine |-> Install(saved[c])]

VARIABLES
    alive,            \* alive[s]: a Console object lives at storage location s
    commands_,        \* commands_[s]: name -> handler
    history_,         \* history_[s]: the console's HISTORY_STATE pointer
    currentConsole_,  \* static Console * currentConsole_
    the_history,      \* the engine's live history
    fs,               \* the script files that can be opened
    stack,            \* the activations in progress, the innermost last
    call,             \* the embedder's call in progress
    ret,              \* the embedder's last completed call and its result
    calls,            \* the handlers invoked during the embedder's call
    out,              \* what the embedder's call wrote to std::cout
    crashed,          \* the process was ended by undefined behaviour
    added,            \* added[s]: the lines readLine gave add_history for the console at s
    fresh,            \* fresh[s]: the console at s has not been the owner yet
    lastReg,          \* lastReg[s]: name -> the handler most recently registered
    last,             \* the executeFile activation that returned last
    it,               \* static RegisteredCommands::iterator it, of commandIterator
    comp              \* the completion request made during the readline() in progress

vars == <<alive, commands_, history_, currentConsole_, the_history, fs, stack,
          call, ret, calls, out, crashed, added, fresh, lastReg, last, it, comp>>

NoCall == [fn |-> "none", c |-> NoConsole, arg |-> <<>>]
NoRet == [fn |-> "none", c |-> NoConsole, arg |-> <<>>, code |-> Ok]
NoLast == [fn |-> "none"]
\* an iterator is the console whose commands_ it runs over, the order in
\* which it visits the names, and its position; the static one starts
\* without a container
NoIt == [c |-> NoConsole, order |-> <<>>, pos |-> 0]
NoComp == [status |-> "none", text |-> <<>>, start |-> 0, state |-> 0,
           matches |-> <<>>, read |-> NoConsole, again |-> FALSE]

Top == stack[Len(stack)]
Below == SubSeq(stack, 1, Len(stack) - 1)
Idle == stack = <<>> /\ ~crashed
In(fn) == ~crashed /\ stack # <<>> /\ Top.fn = fn

(***************************************************************************)
(* Dispatcher.                                                             *)
(***************************************************************************)
\* the executeFile activations in progress
Depth == Cardinality({i \in 1..Len(stack) : stack[i].fn = "executeFile"})

Invocation(c, name, h, tokens) ==
    [c |-> c, name |-> name, h |-> h, tokens |-> tokens, depth |-> Depth]

Code(n, cs, o) == [k |-> "code", code |-> n, calls |-> cs, out |-> o, file |-> <<>>]

\* (it->second)(inputs): what the handler h registered under inputs[0] does.
\* The result is the unsigned it returns, or the script executeFile is to run.
Invoke(c, h, inputs) ==
    LET inv == <<Invocation(c, inputs[1], h, inputs)>>
    IN CASE h.kind = "user" -> Code(ToInt(h.rv), inv, <<>>)
         [] h.kind = "help" ->
                Code(ToInt(FromInt(0)), inv,
                     <<[k |-> "help", names |-> DOMAIN commands_[c]]>>)
         [] h.kind = "run" ->
                IF Len(inputs) < 2
                THEN Code(ToInt(FromInt(1)), inv, <<[k |-> "usage", name |-> inputs[1]]>>)
                ELSE IF inputs[2] \notin DOMAIN fs
                THEN Code(ToInt(FromInt(Error)), inv, <<[k |-> "nofile"]>>)
                ELSE [k |-> "file", code |-> Ok, calls |-> inv, out |-> <<>>,
                      file |-> inputs[2]]
         [] h.kind = "read" ->
                [k |-> "read", code |-> Ok, calls |-> inv, out |-> <<>>,
                 file |-> <<>>, on |-> h.on]
         [] OTHER -> [k |-> "throw", code |-> Ok, calls |-> <<>>, out |-> <<>>,
                      file |-> <<>>]

\* an executeCommand that looks the first token up before it tests for quit
\* and exit
executeCommandLooksUpFirst(c, command) ==
    LET inputs == Tokenize(command)
    IN IF Len(inputs) = 0 THEN Code(Ok, <<>>, <<>>)
       ELSE IF inputs[1] \in DOMAIN commands_[c]
               /\ commands_[c][inputs[1]].kind # "empty"
       THEN Invoke(c, commands_[c][inputs[1]], inputs)
       ELSE IF inputs[1] = quit \/ inputs[1] = exit THEN Code(Quit, <<>>, <<>>)
       ELSE Code(Error, <<>>, <<[k |-> "notfound", name |-> inputs[1]]>>)

\* an executeCommand that lets a name it does not find pass
executeCommandIgnoresUnknown(c, command) ==
    LET inputs == Tokenize(command)
    IN IF Len(inputs) = 0 THEN Code(Ok, <<>>, <<>>)
       ELSE IF inputs[1] = quit \/ inputs[1] = exit THEN Code(Quit, <<>>, <<>>)
       ELSE IF inputs[1] \in DOMAIN commands_[c]
       THEN Invoke(c, commands_[c][inputs[1]], inputs)
       ELSE Code(Ok, <<>>, <<>>)

\* int Console::executeCommand(const std::string & command), up to the point
\* where the `run` built-in enters executeFile
executeCommand(c, command) ==
    LET inputs == Tokenize(command)
    IN IF Len(inputs) = 0 THEN Code(Ok, <<>>, <<>>)
       ELSE IF inputs[1] = quit \/ inputs[1] = exit THEN Code(Quit, <<>>, <<>>)
       ELSE IF inputs[1] \in DOMAIN commands_[c]
       THEN Invoke(c, commands_[c][inputs[1]], inputs)
       ELSE Code(Error, <<>>, <<[k |-> "notfound", name |-> inputs[1]]>>)

\* a registerCommand that inserts and never overwrites (commands_.insert)
registerCommandKeepsFirst(cmds, s, f) ==
    [n \in (DOMAIN cmds) \cup {s} |-> IF n \in DOMAIN cmds THEN cmds[n] ELSE f]

\* commands_[s] = f
registerCommand(cmds, s, f) ==
    [n \in (DOMAIN cmds) \cup {s} |-> IF n = s THEN f ELSE cmds[n]]

\* the orders in which begin() .. end() can visit an unordered_map whose
\* keys are S: every key once, in an order the container chooses
RECURSIVE Orders(_)
Orders(S) ==
    IF S = {} THEN {<<>>}
    ELSE UNION {{<<x>> \o v : v \in Orders(S \ {x})} : x \in S}

\* some of these orders, for where the order is one choice among others
\* that are made: one order, that order begun in its middle, and its reverse
RECURSIVE OneOrder(_)
OneOrder(S) ==
    IF S = {} THEN <<>>
    ELSE LET x == CHOOSE y \in S : TRUE IN <<x>> \o OneOrder(S \ {x})

SomeOrders(S) ==
    LET v == OneOrder(S)
        n == Cardinality(S)
    IN {[i \in 1..n |-> v[((i + k - 1) % n) + 1]] : k \in {0, n \div 2}}
       \cup {[i \in 1..n |-> v[n + 1 - i]]}

\* a listing of the commands that have a callable handler
getRegisteredCommandsCallable(cmds) ==
    Orders({n \in DOMAIN cmds : cmds[n].kind # "empty"})

\* std::vector<std::string> Console::getRegisteredCommands() const: the
\* vectors it can return
getRegisteredCommands(cmds) == Orders(DOMAIN cmds)

(***************************************************************************)
(* Activations.                                                            *)
(***************************************************************************)
\* an executeFile activation: counter, the position of getline in the file,
\* and where it stands: at the head of the loop, inside executeCommand
\* (called), or holding executeCommand's result (got).  passed and results
\* record what it gave executeCommand and what came back.
FileFrame(c, file, via) ==
    [fn |-> "executeFile", c |-> c, file |-> file, via |-> via, pos |-> 1,
     counter |-> 0, state |-> "loop", result |-> Ok, passed |-> <<>>,
     results |-> <<>>]

ReadFrame(c, first) ==
    [fn |-> "readLine", c |-> c, stage |-> "reserved", buffer |-> <<>>,
     first |-> first]

SetTop(stk, f) == [stk EXCEPT ![Len(stk)] = f]

\* command[0], which for an empty string is the terminator
CharAt0(command) == IF Len(command) > 0 THEN command[1] ELSE "NUL"

\* a comment test that skips leading whitespace
IsCommentAfterBlanks(command) == CharAt0(SkipWs(command)) = "#"

\* if ( command[0] == '#' ) continue;
IsComment(command) == CharAt0(command) = "#"

\* a conversion that treats what the handler returned as a plain error count
ThroughHandlerLosesSign(r) == IF r < 0 THEN Error ELSE r

\* the value executeCommand hands back for a handler that returned the int r
\* through the CommandFunction's unsigned
ThroughHandler(r) == ToInt(FromInt(r))

\* The readLine activation on top of stk returns r.  Below it there are only
\* readLine activations, each inside a handler that called the one above it:
\* the handler returns r as its unsigned, executeCommand casts it back, and
\* that readLine returns it in turn, down to the embedder.
RECURSIVE Returned(_, _)
Returned(stk, r) ==
    IF Len(stk) <= 1 THEN r
    ELSE Returned(SubSeq(stk, 1, Len(stk) - 1), ThroughHandler(r))

\* A value r of executeCommand reaches the activation on top of stk, or the
\* embedder when there is none.
Deliver(stk, r) ==
    IF stk = <<>>
    THEN /\ stack' = <<>>
         /\ ret' = [fn |-> call.fn, c |-> call.c, arg |-> call.arg, code |-> r]
    ELSE LET b == stk[Len(stk)]
         IN IF b.fn = "executeFile"
            THEN /\ stack' = SetTop(stk, [b EXCEPT !.state = "got", !.result = r,
                                                   !.results = Append(@, r)])
                 /\ ret' = ret
            ELSE \* return executeCommand(line); in readLine
                 /\ stack' = <<>>
                 /\ ret' = [fn |-> call.fn, c |-> call.c, arg |-> call.arg,
                            code |-> Returned(stk, r)]

\* an executeFile that reports success whatever stopped it
FileReturnsOk(r) ==
    /\ last' = [fn |-> "executeFile", c |-> Top.c, file |-> Top.file,
                passed |-> Top.passed, results |-> Top.results, code |-> Ok]
    /\ Deliver(Below, Ok)

\* the innermost executeFile activation returns r: to the `run` handler that
\* called it, and through it to executeCommand's caller, or to the embedder
FileReturns(r) ==
    /\ last' = [fn |-> "executeFile", c |-> Top.c, file |-> Top.file,
                passed |-> Top.passed, results |-> Top.results, code |-> r]
    /\ Deliver(Below, IF Top.via = "run" THEN ThroughHandler(r) ELSE r)

(***************************************************************************)
(* Inputs.                                                                 *)
(***************************************************************************)
\* the unsigned values a user handler returns: 0, 3, 2^31 - 1, 2^31, 2^32 - 1
RetVals ==
    {U32(0, 0), U32(0, 3), U32(32767, 65535), U32(32768, 0), U32(65535, 65535)}

UserHandlers == {UserFn(u) : u \in RetVals}

\* the names the embedder registers handlers under
RegNames == {foo, quit}

\* a line: leading whitespace, words separated by sep, trailing whitespace
RECURSIVE Join(_, _)
Join(words, sep) ==
    IF words = <<>> THEN <<>>
    ELSE IF Len(words) = 1 THEN words[1]
    ELSE words[1] \o sep \o Join(Tail(words), sep)

Line(pre, words, sep, post) == pre \o Join(words, sep) \o post

Pads == {<<>>, <<" ">>, <<"\t", " ">>}
Seps == {<<" ">>, <<" ", "\t">>}
WordLists ==
    {<<>>, <<quit>>, <<exit, foo>>, <<help>>, <<foo>>, <<foo, bar>>,
     <<foo, bar, bogus>>, <<bogus>>, <<run>>, <<run, noFile>>, <<run, scriptF>>,
     <<run, scriptF, bar>>}

\* the lines the embedder gives executeCommand: every word list plainly
\* spaced, and some with every blank padding and separator
CommandLines ==
    {Line(<<>>, w, <<" ">>, <<>>) : w \in WordLists}
    \cup {Line(pre, w, sep, post) :
             pre \in Pads, w \in {<<>>, <<quit>>, <<foo, bar, bogus>>},
             sep \in Seps, post \in Pads}

\* the lines the user types at the prompt
TypedLines == {<<>>, help, bogus}

(***************************************************************************)
(* The embedder's calls on the registry and the dispatcher.                *)
(***************************************************************************)
\* call, ret, calls, out and last describe the embedder's latest call.  A
\* call that returns nothing completes at once, with nothing invoked or written.
Void(fn, c, arg) ==
    /\ call' = [fn |-> fn, c |-> c, arg |-> arg]
    /\ ret' = [fn |-> fn, c |-> c, arg |-> arg, code |-> Ok]
    /\ calls' = <<>>
    /\ out' = <<>>
    /\ last' = NoLast

\* Console::Console(greeting) at storage location c
Construct(c) ==
    /\ Idle
    /\ ~alive[c]
    /\ alive' = [alive EXCEPT ![c] = TRUE]
    /\ commands_' = [commands_ EXCEPT ![c] = DefaultCommands]
    /\ history_' = [history_ EXCEPT ![c] = NullSnapshot]
    /\ added' = [added EXCEPT ![c] = <<>>]
    /\ fresh' = [fresh EXCEPT ![c] = TRUE]
    /\ lastReg' = [lastReg EXCEPT ![c] = DefaultCommands]
    /\ Void("Console", c, <<>>)
    /\ UNCHANGED <<it, comp, currentConsole_, the_history, fs, stack, crashed>>

\* Console::~Console(): free(history_), and the members' destructors
Destroy(c) ==
    /\ Idle
    /\ alive[c]
    /\ alive' = [alive EXCEPT ![c] = FALSE]
    /\ history_' = [history_ EXCEPT ![c] = Release(history_[c])]
    /\ commands_' = [commands_ EXCEPT ![c] = <<>>]
    /\ lastReg' = [lastReg EXCEPT ![c] = <<>>]
    /\ added' = [added EXCEPT ![c] = <<>>]
    /\ fresh' = [fresh EXCEPT ![c] = FALSE]
    /\ Void("~Console", c, <<>>)
    /\ UNCHANGED <<it, comp, currentConsole_, the_history, fs, stack, crashed>>

\* void Console::registerCommand(const std::string & s, CommandFunction f)
RegisterCommand(c, s, f) ==
    /\ Idle
    /\ alive[c]
    /\ commands_' = [commands_ EXCEPT ![c] = registerCommand(commands_[c], s, f)]
    /\ lastReg' = [lastReg EXCEPT ![c] = [n \in (DOMAIN @) \cup {s} |->
                                              IF n = s THEN f ELSE @[n]]]
    /\ Void("registerCommand", c, s)
    /\ UNCHANGED <<it, comp, alive, history_, currentConsole_, the_history, fs, stack,
                   crashed, added, fresh>>

\* the embedder calls getRegisteredCommands() on the console at c; the vector
\* returned is kept in arg
CallGetRegisteredCommands(c) ==
    /\ Idle
    /\ alive[c]
    /\ \E v \in getRegisteredCommands(commands_[c]) :
          /\ call' = [fn |-> "getRegisteredCommands", c |-> c, arg |-> v]
          /\ ret' = [fn |-> "getRegisteredCommands", c |-> c, arg |-> v, code |-> Ok]
    /\ calls' = <<>>
    /\ out' = <<>>
    /\ last' = NoLast
    /\ UNCHANGED <<it, comp, alive, commands_, history_, currentConsole_, the_history, fs,
                   stack, crashed, added, fresh, lastReg>>

\* what entering executeFile from the `run` handler can come to: the file is
\* opened and read; or, when the activations in progress have used up the
\* process's descriptors or its stack, the std::ifstream fails to open
\* (if ( ! input ) return Error) or the call overflows the stack
EnterOutcomes ==
    IF Depth < MaxDepth THEN {"enter"} ELSE {"no descriptor", "no stack"}

\* what executeCommand(command), called by the activation on top of stk (or
\* by the embedder), does to the control state
Dispatched(stk, c, command) ==
    LET o == executeCommand(c, command)
    IN /\ calls' = calls \o o.calls
       /\ CASE o.k = "code" ->
                 /\ out' = out \o o.out
                 /\ Deliver(stk, o.code)
                 /\ crashed' = crashed
            [] o.k = "file" ->
                 \E e \in EnterOutcomes :
                    CASE e = "enter" ->
                            /\ out' = out \o o.out
                            /\ stack' = Append(stk, FileFrame(c, o.file, "run"))
                            /\ ret' = ret
                            /\ crashed' = crashed
                      [] e = "no descriptor" ->
                            /\ out' = out \o o.out \o <<[k |-> "nofile"]>>
                            /\ Deliver(stk, ThroughHandler(Error))
                            /\ crashed' = crashed
                      [] OTHER ->
                            /\ out' = out \o o.out
                            /\ stack' = <<>>
                            /\ ret' = ret
                            /\ crashed' = TRUE
            [] o.k = "read" ->
                 \* a handler that calls readLine is followed in RlNested
                 FALSE
            [] OTHER ->
                 \* std::bad_function_call leaves every activation
                 /\ out' = out
                 /\ stack' = <<>>
                 /\ ret' = ret
                 /\ crashed' = TRUE

\* the embedder calls executeCommand(command) on the console at c
CallExecuteCommand(c, command) ==
    /\ Idle
    /\ alive[c]
    /\ call' = [fn |-> "executeCommand", c |-> c, arg |-> command]
    /\ LET o == executeCommand(c, command)
       IN /\ calls' = o.calls
          /\ out' = o.out
          /\ CASE o.k = "code" ->
                    /\ stack' = <<>>
                    /\ ret' = [fn |-> "executeCommand", c |-> c, arg |-> command,
                               code |-> o.code]
                    /\ crashed' = crashed
               [] o.k = "file" ->
                    /\ stack' = <<FileFrame(c, o.file, "run")>>
                    /\ ret' = ret
                    /\ crashed' = crashed
               [] o.k = "read" -> FALSE
               [] OTHER ->
                    /\ stack' = <<>>
                    /\ ret' = ret
                    /\ crashed' = TRUE
    /\ last' = NoLast
    /\ UNCHANGED <<it, comp, alive, commands_, history_, currentConsole_, the_history, fs,
                   added, fresh, lastReg>>

(***************************************************************************)
(* executeFile.                                                            *)
(***************************************************************************)
\* the embedder calls executeFile(filename) on the console at c
CallExecuteFile(c, filename) ==
    /\ Idle
    /\ alive[c]
    /\ call' = [fn |-> "executeFile", c |-> c, arg |-> filename]
    /\ calls' = <<>>
    /\ IF filename \notin DOMAIN fs
       THEN \* if ( ! input ) return ReturnCode::Error;
            /\ out' = <<[k |-> "nofile"]>>
            /\ stack' = <<>>
            /\ ret' = [fn |-> "executeFile", c |-> c, arg |-> filename, code |-> Error]
       ELSE /\ out' = <<>>
            /\ stack' = <<FileFrame(c, filename, "direct")>>
            /\ ret' = ret
    /\ last' = NoLast
    /\ UNCHANGED <<it, comp, alive, commands_, history_, currentConsole_, the_history, fs,
                   crashed, added, fresh, lastReg>>

AtLine == In("executeFile") /\ Top.state = "loop" /\ Top.pos <= Len(fs[Top.file])

\* std::getline fails: return ReturnCode::Ok
FileEof ==
    /\ In("executeFile")
    /\ Top.state = "loop"
    /\ Top.pos > Len(fs[Top.file])
    /\ FileReturns(Ok)
    /\ UNCHANGED <<it, comp, alive, commands_, history_, currentConsole_, the_history, fs,
                   call, calls, out, crashed, added, fresh, lastReg>>

\* if ( command[0] == '#' ) continue;
FileComment ==
    /\ AtLine
    /\ IsComment(fs[Top.file][Top.pos])
    /\ stack' = SetTop(stack, [Top EXCEPT !.pos = @ + 1])
    /\ UNCHANGED <<it, comp, alive, commands_, history_, currentConsole_, the_history, fs,
                   call, ret, calls, out, crashed, added, fresh, lastReg, last>>

\* std::cout << "[" << counter << "] " << command; result = executeCommand(command)
FileCommand ==
    /\ AtLine
    /\ ~IsComment(fs[Top.file][Top.pos])
    /\ LET command == fs[Top.file][Top.pos]
           o == executeCommand(Top.c, command)
           me == [Top EXCEPT !.passed = Append(@, Top.pos)]
           echo == <<[k |-> "echo", n |-> Top.counter, line |-> command]>>
           failed == ThroughHandler(Error)
       IN /\ calls' = calls \o o.calls
          /\ CASE o.k = "code" ->
                    /\ out' = out \o echo \o o.out
                    /\ stack' = SetTop(stack, [me EXCEPT !.state = "got",
                                                         !.result = o.code,
                                                         !.results = Append(@, o.code)])
                    /\ crashed' = crashed
               [] o.k = "file" ->
                    \E e \in EnterOutcomes :
                       CASE e = "enter" ->
                               /\ out' = out \o echo \o o.out
                               /\ stack' = Append(SetTop(stack, [me EXCEPT !.state = "called"]),
                                                  FileFrame(Top.c, o.file, "run"))
                               /\ crashed' = crashed
                         [] e = "no descriptor" ->
                               /\ out' = out \o echo \o o.out \o <<[k |-> "nofile"]>>
                               /\ stack' = SetTop(stack, [me EXCEPT !.state = "got",
                                                                    !.result = failed,
                                                                    !.results = Append(@, failed)])
                               /\ crashed' = crashed
                         [] OTHER ->
                               /\ out' = out \o echo \o o.out
                               /\ stack' = <<>>
                               /\ crashed' = TRUE
               [] o.k = "read" -> FALSE
               [] OTHER ->
                    /\ out' = out \o echo \o o.out
                    /\ stack' = <<>>
                    /\ crashed' = TRUE
    /\ UNCHANGED <<it, comp, alive, commands_, history_, currentConsole_, the_history, fs,
                   call, ret, added, fresh, lastReg, last>>

\* if ( (result = executeCommand(command)) ) return result; ++counter;
FileResult ==
    /\ In("executeFile")
    /\ Top.state = "got"
    /\ IF Top.result # 0
       THEN /\ FileReturns(Top.result)
            /\ out' = out
       ELSE /\ stack' = SetTop(stack, [Top EXCEPT !.state = "loop", !.pos = @ + 1,
                                                  !.counter = @ + 1])
            /\ out' = Append(out, [k |-> "nl"])
            /\ UNCHANGED <<ret, last>>
    /\ UNCHANGED <<it, comp, alive, commands_, history_, currentConsole_, the_history, fs,
                   call, calls, crashed, added, fresh, lastReg>>

(***************************************************************************)
(* readLine.                                                               *)
(***************************************************************************)
\* currentConsole_ points at a destroyed console that is not the caller:
\* currentConsole_->saveState() is undefined behaviour
Dangling(c) ==
    currentConsole_ # NoConsole /\ currentConsole_ # c /\ ~alive[currentConsole_]

\* what the build can make of reserveConsole(): the defined behaviour, or,
\* on a dangling currentConsole_, either the save going through on the dead
\* object's storage or the process ending
ReserveOutcomes(c) == IF Dangling(c) THEN {"intact", "crash"} ELSE {"defined"}

\* int Console::readLine(): reserveConsole()
RlReserve(c) ==
    /\ Idle
    /\ alive[c]
    /\ call' = [fn |-> "readLine", c |-> c, arg |-> <<>>]
    /\ calls' = <<>>
    /\ out' = <<>>
    /\ \E o \in ReserveOutcomes(c) :
          IF o = "crash"
          THEN /\ crashed' = TRUE
               /\ UNCHANGED <<currentConsole_, history_, the_history, stack, fresh>>
          ELSE LET r == reserveConsole(c, currentConsole_, history_, the_history)
               IN /\ currentConsole_' = r.current
                  /\ history_' = r.history
                  /\ the_history' = r.engine
                  /\ stack' = <<ReadFrame(c, fresh[c])>>
                  /\ fresh' = [fresh EXCEPT ![c] = FALSE]
                  /\ crashed' = crashed
    /\ ret' = NoRet
    /\ last' = NoLast
    /\ UNCHANGED <<it, comp, alive, commands_, fs, added, lastReg>>

\* readline() returns nullptr: return ReturnCode::Quit
RlEof ==
    /\ In("readLine")
    /\ Top.stage = "reserved"
    /\ out' = Append(out, [k |-> "nl"])
    /\ stack' = <<>>
    /\ ret' = [fn |-> "readLine", c |-> call.c, arg |-> <<>>,
               code |-> Returned(stack, Quit)]
    /\ comp' = NoComp
    /\ UNCHANGED <<it, alive, commands_, history_, currentConsole_, the_history, fs,
                   call, calls, crashed, added, fresh, lastReg, last>>

RECURSIVE SavedLines(_)
SavedLines(S) ==
    IF S = {} THEN 0
    ELSE LET s == CHOOSE x \in S : TRUE
         IN Len(history_[s].entries) + SavedLines(S \ {s})

\* the history lines held by the engine and by the other consoles' saved states
HeldLines == Len(the_history) + SavedLines(Slots \ {currentConsole_})

\* char * buffer = readline(greeting_.c_str()) returns a line
RlGetLine(line) ==
    /\ In("readLine")
    /\ Top.stage = "reserved"
    /\ line = <<>> \/ HeldLines < MaxHist
    /\ stack' = SetTop(stack, [Top EXCEPT !.stage = "gotline", !.buffer = line])
    /\ call' = [call EXCEPT !.arg = line]
    /\ comp' = NoComp
    /\ UNCHANGED <<it, alive, commands_, history_, currentConsole_, the_history, fs,
                   ret, calls, out, crashed, added, fresh, lastReg, last>>

\* add_history(buffer): the engine appends to its live history
add_history(engine, buffer, owner) == Append(engine, [line |-> buffer, by |-> owner])

\* a readLine that gives every line to add_history, the empty one too
RlAddHistoryAlways ==
    /\ In("readLine")
    /\ Top.stage = "gotline"
    /\ the_history' = add_history(the_history, Top.buffer, currentConsole_)
    /\ added' = [added EXCEPT ![Top.c] = Append(@, Top.buffer)]
    /\ stack' = SetTop(stack, [Top EXCEPT !.stage = "dispatch"])
    /\ UNCHANGED <<it, comp, alive, commands_, history_, currentConsole_, fs, call, ret,
                   calls, out, crashed, fresh, lastReg, last>>

\* if ( buffer[0] != '\0' ) add_history(buffer);
RlAddHistory ==
    /\ In("readLine")
    /\ Top.stage = "gotline"
    /\ IF Top.buffer # <<>>
       THEN /\ the_history' = add_history(the_history, Top.buffer, currentConsole_)
            /\ added' = [added EXCEPT ![Top.c] = Append(@, Top.buffer)]
       ELSE UNCHANGED <<the_history, added>>
    /\ stack' = SetTop(stack, [Top EXCEPT !.stage = "dispatch"])
    /\ UNCHANGED <<it, comp, alive, commands_, history_, currentConsole_, fs, call, ret,
                   calls, out, crashed, fresh, lastReg, last>>

\* return executeCommand(line);
RlDispatch ==
    /\ In("readLine")
    /\ Top.stage = "dispatch"
    /\ Dispatched(SetTop(stack, [Top EXCEPT !.stage = "dispatching"]), Top.c,
                  Top.buffer)
    /\ UNCHANGED <<it, comp, alive, commands_, history_, currentConsole_, the_history, fs,
                   call, added, fresh, lastReg, last>>

\* (it->second)(inputs) is a handler that calls readLine() on the console at
\* o.on: that readLine reserves its console, while the caller's readLine
\* waits inside executeCommand
RlNested ==
    /\ In("readLine")
    /\ Top.stage = "dispatch"
    /\ Len(stack) < MaxNest
    /\ LET o == executeCommand(Top.c, Top.buffer)
       IN /\ o.k = "read"
          /\ alive[o.on]
          /\ calls' = calls \o o.calls
          /\ LET r == reserveConsole(o.on, currentConsole_, history_, the_history)
             IN /\ currentConsole_' = r.current
                /\ history_' = r.history
                /\ the_history' = r.engine
          /\ stack' = Append(SetTop(stack, [Top EXCEPT !.stage = "dispatching"]),
                             ReadFrame(o.on, fresh[o.on]))
          /\ fresh' = [fresh EXCEPT ![o.on] = FALSE]
    /\ UNCHANGED <<it, comp, alive, commands_, fs, call, ret, out, crashed, added,
                   lastReg, last>>

(***************************************************************************)
(* Completion.  While readline() waits for a line, the engine calls        *)
(* getCommandCompletions(text, start, end), and that, through              *)
(* rl_completion_matches, calls commandIterator(text, 0), (text, 1), ...   *)
(* until it returns nullptr.                                               *)
(***************************************************************************)
\* command.find(text) != std::string::npos
Find(command, text) ==
    \E i \in 0..(Len(command) - Len(text)) :
       SubSeq(command, i + 1, i + Len(text)) = text

\* begin(commands_), for the order in which the map visits its names
begin(c, order) == [c |-> c, order |-> order, pos |-> 1]

\* end(commands_): one value, whatever the order
EndIt(c) == [c |-> c, order |-> <<>>, pos |-> 1]

AtEnd(i) == i.pos > Len(i.order)

\* return nullptr;
NullCompletion == [null |-> TRUE, name |-> <<>>, size |-> 0, copied |-> 0]

\* char * completion = new char[command.size()]; strcpy(completion, command.c_str());
\* size is the length of the array, copied the characters strcpy writes, the
\* terminator among them
Completion(command) ==
    [null |-> FALSE, name |-> command, size |-> Len(command),
     copied |-> Len(command) + 1]

\* while ( it != end(commands_) ) { auto & command = it->first; ++it; if ( ... ) return completion; }
RECURSIVE Scan(_, _)
Scan(i, text) ==
    IF AtEnd(i) THEN [it |-> EndIt(i.c), completion |-> NullCompletion]
    ELSE LET command == i.order[i.pos]
             next == [i EXCEPT !.pos = @ + 1]
         IN IF Find(command, text)
            THEN [it |-> IF AtEnd(next) THEN EndIt(i.c) ELSE next,
                  completion |-> Completion(command)]
            ELSE Scan(next, text)

\* a commandIterator that sets its iterator the first time only
commandIteratorNoRestart(text, state, i, c, order) ==
    Scan(IF i = NoIt THEN begin(c, order) ELSE i, text)

\* char * Console::commandIterator(const char * text, int state), with i the
\* static iterator, c the console currentConsole_ points at and order the
\* order in which its commands_ is visited
commandIterator(text, state, i, c, order) ==
    Scan(IF state = 0 THEN begin(c, order) ELSE i, text)

\* what the build can make of strcpy: the defined behaviour when the array
\* holds the string and its terminator, and otherwise either a write that
\* does no harm or a heap that is no longer usable
CopyOutcomes(completion) ==
    IF completion.copied <= completion.size THEN {"defined"}
    ELSE {"intact", "corrupt"}

\* char ** Console::getCommandCompletions(const char * text, int start, int):
\* nullptr unless start == 0
Complete(text, start) ==
    /\ In("readLine")
    /\ Top.stage = "reserved"
    /\ comp.status # "running"
    /\ comp' = [status |-> IF start = 0 THEN "running" ELSE "done", text |-> text,
                start |-> start, state |-> 0, matches |-> <<>>,
                read |-> NoConsole, again |-> it # NoIt]
    /\ UNCHANGED <<it, alive, commands_, history_, currentConsole_, the_history,
                   fs, stack, call, ret, calls, out, crashed, added, fresh,
                   lastReg, last>>

\* rl_completion_matches calls commandIterator(text, state) once more
Generate ==
    /\ ~crashed
    /\ comp.status = "running"
    /\ IF currentConsole_ = NoConsole \/ ~alive[currentConsole_]
       THEN \* currentConsole_->commands_ through a null or dangling pointer
            /\ crashed' = TRUE
            /\ UNCHANGED <<it, comp>>
       ELSE \E order \in IF comp.state = 0
                         THEN SomeOrders(DOMAIN commands_[currentConsole_])
                         ELSE {it.order} :
               LET q == commandIterator(comp.text, comp.state, it,
                                        currentConsole_, order)
                   asked == [comp EXCEPT !.read = currentConsole_,
                                         !.state = @ + 1]
               IN /\ it' = q.it
                  /\ IF q.completion.null
                     THEN /\ comp' = [asked EXCEPT !.status = "done"]
                          /\ crashed' = crashed
                     ELSE /\ comp' = [asked EXCEPT !.matches = Append(@, q.completion)]
                          /\ \E o \in CopyOutcomes(q.completion) :
                                crashed' = (o = "corrupt")
    /\ UNCHANGED <<alive, commands_, history_, currentConsole_, the_history, fs,
                   stack, call, ret, calls, out, added, fresh, lastReg, last>>

(***************************************************************************)
(* Specifications.                                                         *)
(***************************************************************************)
\* the script the dispatcher's `run` opens: a comment, an empty line, a
\* command the embedder may have registered, and a built-in
DemoScript == << <<"#", "c">>, <<>>, foo \o <<" ">> \o bar, help >>

\* before main(): no console, an empty engine history
Init ==
    /\ alive = [s \in Slots |-> FALSE]
    /\ commands_ = [s \in Slots |-> <<>>]
    /\ history_ = [s \in Slots |-> NullSnapshot]
    /\ currentConsole_ = NoConsole
    /\ the_history = emptyHistory_
    /\ fs = [n \in {scriptF} |-> DemoScript]
    /\ stack = <<>>
    /\ call = NoCall
    /\ ret = NoRet
    /\ calls = <<>>
    /\ out = <<>>
    /\ crashed = FALSE
    /\ added = [s \in Slots |-> <<>>]
    /\ fresh = [s \in Slots |-> FALSE]
    /\ lastReg = [s \in Slots |-> <<>>]
    /\ last = NoLast
    /\ it = NoIt
    /\ comp = NoComp

ReadLineStep ==
    \/ \E c \in Slots : RlReserve(c)
    \/ RlEof
    \/ \E line \in TypedLines : RlGetLine(line)
    \/ RlAddHistory
    \/ RlDispatch

\* consoles are constructed, read from in any interleaving, and destroyed
Next ==
    \/ \E c \in Slots : Construct(c)
    \/ \E c \in Slots : Destroy(c)
    \/ ReadLineStep

Spec == Init /\ [][Next]_vars

\* as Next, but the console that owns the engine's history is not destroyed
DestroyIdle(c) == c # currentConsole_ /\ Destroy(c)

NextLive ==
    \/ \E c \in Slots : Construct(c)
    \/ \E c \in Slots : DestroyIdle(c)
    \/ ReadLineStep

SpecLive == Init /\ [][NextLive]_vars

(***************************************************************************)
(* History multiplexing.                                                   *)
(***************************************************************************)
Lines(h) == [i \in 1..Len(h) |-> h[i].line]

\* C1: History isolation.  While a live console is the owner, every entry of
\* the engine's live history was added while that console was the owner;
\* readLine adds to the history only while its own console is the owner; and
\* when a console has just been made the owner again, every line it added is
\* in the live history.
HistoryIsolation ==
    /\ \A c \in Slots :
          (currentConsole_ = c /\ alive[c]) =>
             \A i \in 1..Len(the_history) : the_history[i].by = c
    /\ (In("readLine") /\ Top.stage = "gotline") => currentConsole_ = Top.c
    /\ (In("readLine") /\ Top.stage = "reserved") =>
          \A i \in 1..Len(added[Top.c]) :
             \E j \in 1..Len(the_history) :
                the_history[j] = [line |-> added[Top.c][i], by |-> Top.c]

\* a console that was swapped out is the owner again and sees its own line,
\* while another live console's line sits in that console's saved state
HistoryIsolationWitness ==
    /\ In("readLine")
    /\ Top.stage = "reserved"
    /\ history_[Top.c].st = "owned"
    /\ the_history # <<>>
    /\ \E s \in Slots \ {Top.c} :
          alive[s] /\ history_[s].st = "owned" /\ history_[s].entries # <<>>

\* C2: No loss on handoff.  A live console that has been the owner and is
\* not now holds, as its saved state, exactly the lines it has read, in
\* order (the state captured when it was swapped out); and the history the
\* owner sees is exactly the ordered sequence of non-empty lines it has read.
NoLossOnHandoff ==
    /\ \A s \in Slots :
          (alive[s] /\ s # currentConsole_ /\ ~fresh[s]) =>
             /\ history_[s].st = "owned"
             /\ Lines(history_[s].entries) = added[s]
    /\ \A c \in Slots :
          (alive[c] /\ c = currentConsole_) => Lines(the_history) = added[c]

\* a console reads a line after it was swapped out and back in, and is
\* swapped out again: its saved state was replaced by a longer one
NoLossOnHandoffWitness ==
    \E s \in Slots :
       /\ alive[s]
       /\ s # currentConsole_
       /\ currentConsole_ # NoConsole
       /\ Len(history_[s].entries) = 2
       /\ history_[s].entries[1].line # history_[s].entries[2].line

\* C3: A fresh console never inherits history.  When readLine has reserved a
\* console for the first time since its construction, the engine's live
\* history is empty.
FreshConsoleStartsEmpty ==
    (In("readLine") /\ Top.stage = "reserved" /\ Top.first) => the_history = <<>>

\* C4: The active-console reference is null or refers to a console that has
\* not been destroyed.
ActiveConsoleIsLive == currentConsole_ = NoConsole \/ alive[currentConsole_]

\* one console, freshly constructed; the embedder registers handlers and
\* gives executeCommand lines, among them `run` on the script
InitDispatch ==
    /\ alive = [s \in Slots |-> s = 1]
    /\ commands_ = [s \in Slots |-> IF s = 1 THEN DefaultCommands ELSE <<>>]
    /\ history_ = [s \in Slots |-> NullSnapshot]
    /\ currentConsole_ = NoConsole
    /\ the_history = emptyHistory_
    /\ fs = [n \in {scriptF} |-> DemoScript]
    /\ stack = <<>>
    /\ call = NoCall
    /\ ret = NoRet
    /\ calls = <<>>
    /\ out = <<>>
    /\ crashed = FALSE
    /\ added = [s \in Slots |-> <<>>]
    /\ fresh = [s \in Slots |-> s = 1]
    /\ lastReg = [s \in Slots |-> IF s = 1 THEN DefaultCommands ELSE <<>>]
    /\ last = NoLast
    /\ it = NoIt
    /\ comp = NoComp

FileStep ==
    \/ FileEof
    \/ FileComment
    \/ FileCommand
    \/ FileResult

NextDispatch ==
    \/ \E c \in Slots, s \in RegNames, f \in UserHandlers : RegisterCommand(c, s, f)
    \/ \E c \in Slots, command \in CommandLines : CallExecuteCommand(c, command)
    \/ \E c \in Slots : CallGetRegisteredCommands(c)
    \/ FileStep

SpecDispatch == InitDispatch /\ [][NextDispatch]_vars

\* the lines of a script: a comment, an empty line, a `#` after a blank,
\* a command that succeeds, one that fails with 3, quit, the script running
\* itself, and the script running the other script
ScriptLines ==
    {<<"#", "c">>, <<>>, <<" ", "#", "c">>, foo, bar, quit,
     run \o <<" ">> \o scriptF, run \o <<" ">> \o scriptG}

\* what the other script holds: a command that succeeds, or quit
InnerScripts == {<<foo>>, <<quit>>}

RECURSIVE SeqsUpTo(_, _)
SeqsUpTo(S, n) ==
    IF n = 0 THEN {<<>>}
    ELSE LET shorter == SeqsUpTo(S, n - 1)
         IN shorter \cup {Append(q, x) : q \in shorter, x \in S}

Scripts == SeqsUpTo(ScriptLines, MaxFileLen)

\* the registry the scripts run against: foo succeeds, bar fails with 3
ScriptCommands ==
    registerCommand(registerCommand(DefaultCommands, foo, UserFn(U32(0, 0))),
                    bar, UserFn(U32(0, 3)))

\* one console with foo and bar registered, any script of the bound's length
\* and a second script for it to run
InitFile ==
    /\ alive = [s \in Slots |-> s = 1]
    /\ commands_ = [s \in Slots |-> IF s = 1 THEN ScriptCommands ELSE <<>>]
    /\ history_ = [s \in Slots |-> NullSnapshot]
    /\ currentConsole_ = NoConsole
    /\ the_history = emptyHistory_
    /\ fs \in {[n \in {scriptF, scriptG} |-> IF n = scriptF THEN sc ELSE inner] :
                  sc \in Scripts, inner \in InnerScripts}
    /\ stack = <<>>
    /\ call = NoCall
    /\ ret = NoRet
    /\ calls = <<>>
    /\ out = <<>>
    /\ crashed = FALSE
    /\ added = [s \in Slots |-> <<>>]
    /\ fresh = [s \in Slots |-> s = 1]
    /\ lastReg = [s \in Slots |-> IF s = 1 THEN ScriptCommands ELSE <<>>]
    /\ last = NoLast
    /\ it = NoIt
    /\ comp = NoComp

NextFile ==
    \/ \E c \in Slots, filename \in {scriptF, noFile} : CallExecuteFile(c, filename)
    \/ FileStep

SpecFile == InitFile /\ [][NextFile]_vars

(***************************************************************************)
(* Dispatch.                                                               *)
(***************************************************************************)
\* the embedder's call of fn has returned, and ret is its result
Done(fn) == Idle /\ call.fn = fn /\ ret.fn = fn

\* the word lists a line is made of, by its construction
Shape(line) ==
    {w \in WordLists :
        \E pre \in Pads, sep \in Seps, post \in Pads : line = Line(pre, w, sep, post)}

\* the first word of the line is the name of a handler the embedder registered
ToUserHandler(c, w) ==
    /\ w # <<>>
    /\ w[1] \notin {quit, exit}
    /\ w[1] \in DOMAIN commands_[c]
    /\ commands_[c][w[1]].kind = "user"

\* C5: A line whose first token is quit or exit makes executeCommand return
\* Quit and invoke no handler, whatever is registered under those names.
QuitExitIntercepted ==
    Done("executeCommand") =>
       \A w \in Shape(ret.arg) :
          (w # <<>> /\ w[1] \in {quit, exit}) => (ret.code = Quit /\ calls = <<>>)

\* quit was given while the embedder's own handler was registered under quit
QuitExitInterceptedWitness ==
    /\ Done("executeCommand")
    /\ \E w \in Shape(ret.arg) : w # <<>> /\ w[1] = quit
    /\ commands_[ret.c][quit].kind = "user"
    /\ ret.code = Quit

\* C6: executeCommand on a line dispatching to a user handler registered
\* under a name other than quit and exit never returns Quit.
HandlersNeverQuit ==
    Done("executeCommand") =>
       \A w \in Shape(ret.arg) : ToUserHandler(ret.c, w) => ret.code # Quit

\* C7: executeCommand returns an int equal to the value the user handler
\* returned, and every result of executeCommand is -1, 0 or at least 1.
HandlerCodeUnchanged ==
    Done("executeCommand") =>
       /\ ret.code >= Quit
       /\ \A w \in Shape(ret.arg) :
             ToUserHandler(ret.c, w) =>
                LET n == commands_[ret.c][w[1]].rv
                IN n.hi < 32768 /\ ret.code = n.hi * 65536 + n.lo

\* the handlers executeCommand itself invoked, not those a script it ran did
Direct(cs) ==
    LET AtTop(x) == x.depth = 0
    IN SelectSeq(cs, AtTop)

\* C10: Dispatch by first token.  For a line whose first word t is not quit
\* or exit and is a registered name, executeCommand invokes exactly one
\* handler, the one most recently registered under t, once, with the list
\* of the line's words, whatever blanks surround and separate them.
DispatchByFirstToken ==
    Done("executeCommand") =>
       \A w \in Shape(ret.arg) :
          (w # <<>> /\ w[1] \notin {quit, exit} /\ w[1] \in DOMAIN lastReg[ret.c]) =>
             Direct(calls) = <<[c |-> ret.c, name |-> w[1], h |-> lastReg[ret.c][w[1]],
                                tokens |-> w, depth |-> 0]>>

\* a padded three-word line reached the embedder's handler
DispatchByFirstTokenWitness ==
    /\ Done("executeCommand")
    /\ ret.arg = Line(<<"\t", " ">>, <<foo, bar, bogus>>, <<" ", "\t">>, <<" ">>)
    /\ Len(calls) = 1
    /\ calls[1].h.kind = "user"
    /\ calls[1].tokens = <<foo, bar, bogus>>

(***************************************************************************)
(* Scripts.                                                                *)
(***************************************************************************)
FirstIsHash(l) == Len(l) >= 1 /\ l[1] = "#"

\* the positions, in file order and up to position m, of the lines of sc
\* whose first character is not `#`
NonComments(sc, m) ==
    LET Keep(i) == i <= m /\ ~FirstIsHash(sc[i])
    IN SelectSeq([i \in 1..Len(sc) |-> i], Keep)

AllZero(rs, n) == \A i \in 1..n : rs[i] = 0

\* C8: executeFile passes the non-comment lines to executeCommand in file
\* order, stops at the first one whose result is not zero and returns that
\* result, and returns Ok when every line it executed returned zero.
ScriptStopsAtFirstFailure ==
    /\ last.fn = "executeFile" =>
          LET sc == fs[last.file]
              n == Len(last.passed)
          IN /\ Len(last.results) = n
             /\ AllZero(last.results, n - 1)
             /\ IF last.code # 0
                THEN /\ n >= 1
                     /\ last.results[n] = last.code
                     /\ last.passed = NonComments(sc, last.passed[n])
                ELSE /\ AllZero(last.results, n)
                     /\ last.passed = NonComments(sc, Len(sc))
    /\ (Done("executeFile") /\ ret.arg \in DOMAIN fs) =>
          (last.fn = "executeFile" /\ ret.code = last.code)

\* a script was stopped by quit after a command that succeeded, with a
\* line left that was never executed
ScriptStopsAtFirstFailureWitness ==
    /\ Done("executeFile")
    /\ ret.code = Quit
    /\ last.fn = "executeFile"
    /\ Len(last.passed) = 2
    /\ Len(NonComments(fs[last.file], Len(fs[last.file]))) = 3

Activations ==
    {stack[i] : i \in {j \in 1..Len(stack) : stack[j].fn = "executeFile"}}

\* C9: In executeFile a line is a comment exactly when its first character
\* is `#`.  A comment is not echoed, not passed to executeCommand and does
\* not advance the counter; every other line reached, an empty one (which
\* yields Ok) and one with a blank before the `#` included, is passed on.
CommentIffFirstCharHash ==
    /\ \A f \in Activations :
          LET sc == fs[f.file]
              reached == IF f.state = "loop" THEN f.pos - 1 ELSE f.pos
          IN /\ f.passed = NonComments(sc, reached)
             /\ f.counter = IF f.state = "loop" THEN Len(f.passed)
                                                ELSE Len(f.passed) - 1
             /\ \A i \in 1..Len(f.results) :
                   sc[f.passed[i]] = <<>> => f.results[i] = Ok
    /\ \A j \in 1..Len(out) : out[j].k = "echo" => ~FirstIsHash(out[j].line)

\* after a comment, an empty line was executed and then a line with a
\* blank before its `#`
CommentIffFirstCharHashWitness ==
    /\ last.fn = "executeFile"
    /\ fs[last.file] = << <<"#", "c">>, <<>>, <<" ", "#", "c">> >>
    /\ last.passed = <<2, 3>>
    /\ last.results[1] = Ok

HasKind(o, k) == \E j \in 1..Len(o) : o[j].k = k

\* C11: executeCommand on a line with no tokens returns Ok, and on a line
\* whose first token is neither quit nor exit nor a registered name returns
\* Error; in both cases no handler is invoked, and no step of executeCommand
\* changes the registry, the owner, the live history or a saved state.
NoTokensOrUnknown ==
    /\ [](Done("executeCommand") =>
            \A w \in Shape(ret.arg) :
               /\ w = <<>> => (ret.code = Ok /\ calls = <<>> /\ out = <<>>)
               /\ (w # <<>> /\ w[1] \notin {quit, exit}
                   /\ w[1] \notin DOMAIN lastReg[ret.c]) =>
                     /\ ret.code = Error
                     /\ calls = <<>>
                     /\ out = <<[k |-> "notfound", name |-> w[1]]>>)
    /\ [][call'.fn = "executeCommand" =>
            UNCHANGED <<commands_, currentConsole_, the_history, history_>>]_vars

\* a padded blank line was given, and later an unknown name
NoTokensOrUnknownWitness ==
    /\ Done("executeCommand")
    /\ ret.arg = bogus
    /\ ret.code = Error
    /\ foo \in DOMAIN commands_[ret.c]

\* C12: `run` without an argument returns Error and executes no script
\* line; with one it has executeFile run the file named by the argument, and
\* executeCommand returns executeFile's result as it is, be it Ok, an error
\* code or Quit.
RunDelegates ==
    Done("executeCommand") =>
       \A w \in Shape(ret.arg) :
          (w # <<>> /\ w[1] = run) =>
             IF Len(w) < 2
             THEN ret.code = Error /\ last = NoLast /\ ~HasKind(out, "echo")
             ELSE IF w[2] \in DOMAIN fs
             THEN last.fn = "executeFile" /\ last.file = w[2] /\ ret.code = last.code
             ELSE ret.code = Error /\ last = NoLast /\ HasKind(out, "nofile")

\* the script run by `run f` was stopped by a handler's 2^32 - 1, and
\* executeCommand returned Quit
RunDelegatesWitness ==
    /\ Done("executeCommand")
    /\ ret.arg = Line(<<>>, <<run, scriptF>>, <<" ">>, <<>>)
    /\ last.fn = "executeFile"
    /\ last.code = Quit
    /\ ret.code = Quit

Occurrences(v, n) == Cardinality({i \in 1..Len(v) : v[i] = n})

\* C15: getRegisteredCommands returns quit, exit, help, run and every name
\* ever registered, each exactly once, and nothing else; and no step removes
\* a name from a console's registry: registerCommand(s, f) inserts s or
\* overwrites its handler, and leaves every other name's handler as it was.
RegistryListing ==
    /\ [](Done("getRegisteredCommands") =>
            LET names == {quit, exit, help, run} \cup DOMAIN lastReg[ret.c]
            IN /\ \A n \in names : Occurrences(ret.arg, n) = 1
               /\ \A i \in 1..Len(ret.arg) : ret.arg[i] \in names)
    /\ [][\A c \in Slots :
            (alive[c] /\ alive'[c]) =>
               /\ DOMAIN commands_[c] \subseteq DOMAIN commands_'[c]
               /\ (call'.fn = "registerCommand" /\ call'.c = c) =>
                     /\ DOMAIN commands_'[c] = DOMAIN commands_[c] \cup {call'.arg}
                     /\ \A n \in DOMAIN commands_[c] \ {call'.arg} :
                           commands_'[c][n] = commands_[c][n]]_vars

\* the listing of a registry to which foo was added and in which quit was
\* overwritten
RegistryListingWitness ==
    /\ Done("getRegisteredCommands")
    /\ Len(ret.arg) = 5
    /\ Occurrences(ret.arg, foo) = 1
    /\ commands_[ret.c][quit] # EmptyFn

(***************************************************************************)
(* readLine.                                                               *)
(***************************************************************************)
\* C13: readLine reserves its console before it obtains a line; on
\* end-of-input it returns Quit with nothing appended and nothing dispatched;
\* otherwise it appends the line to the history iff the line is not empty,
\* with nothing dispatched yet, and only then dispatches the line and returns
\* executeCommand's result, whatever that result is.
ReadLineOrder ==
    /\ []((In("readLine") /\ Top.stage \in {"reserved", "gotline", "dispatch"}) =>
            /\ currentConsole_ = Top.c
            /\ calls = <<>>
            /\ out = <<>>
            /\ (Top.stage = "dispatch" /\ Top.buffer # <<>>) =>
                  /\ the_history # <<>>
                  /\ the_history[Len(the_history)].line = Top.buffer)
    /\ [][In("readLine") =>
            CASE Top.stage = "reserved" /\ stack' = <<>> ->
                    /\ ret'.fn = "readLine"
                    /\ ret'.code = Quit
                    /\ the_history' = the_history
                    /\ calls' = <<>>
              [] Top.stage = "reserved" /\ stack' # <<>> ->
                    /\ Top'.stage = "gotline"
                    /\ the_history' = the_history
              [] Top.stage = "gotline" ->
                    /\ Top'.stage = "dispatch"
                    /\ Len(the_history') =
                          Len(the_history) + (IF Top.buffer # <<>> THEN 1 ELSE 0)
                    /\ SubSeq(the_history', 1, Len(the_history)) = the_history
              [] Top.stage = "dispatch" ->
                    /\ the_history' = the_history
                    /\ stack' = <<>>
                    /\ ret'.fn = "readLine"
                    /\ ret'.code = executeCommand(Top.c, Top.buffer).code
                    /\ calls' = executeCommand(Top.c, Top.buffer).calls
              [] OTHER -> FALSE]_vars

\* a line that executeCommand answered with Error was read, and is the
\* newest history entry
ReadLineOrderWitness ==
    /\ Done("readLine")
    /\ ret.code = Error
    /\ call.arg = bogus
    /\ the_history # <<>>
    /\ the_history[Len(the_history)].line = bogus

\* C16: reserveConsole() on the console that is the owner already changes
\* nothing: currentConsole_, the engine's live history and every console's
\* history_, the caller's included, stay as they are.
ReserveByOwnerIsNoOp ==
    [][(stack = <<>> /\ stack' # <<>> /\ stack'[1].fn = "readLine"
        /\ stack'[1].c = currentConsole_) =>
          UNCHANGED <<currentConsole_, the_history, history_>>]_vars

\* a console that read a line and was never swapped out is reserved again
ReserveByOwnerIsNoOpWitness ==
    /\ In("readLine")
    /\ Top.stage = "reserved"
    /\ ~Top.first
    /\ alive[Top.c]
    /\ the_history # <<>>
    /\ history_[Top.c].st = "null"
    /\ \E s \in Slots \ {Top.c} : alive[s] /\ history_[s].st = "owned"

\* C17: Snapshot ownership safety.  saveState() is never run on a destroyed
\* console: no step frees or replaces the history_ of a console that has been
\* destroyed, so no destroyed console comes to own a saved state, and the
\* process is not ended by a read or a release through a dead object.
SnapshotOwnershipSafe ==
    /\ ~crashed
    /\ \A s \in Slots : ~alive[s] => history_[s].st # "owned"

\* C19: Every call of executeFile returns, whatever `run` lines the scripts
\* hold: the process is never ended inside an executeFile call by the
\* activations that scripts running themselves or each other pile up.
ExecuteFileReturns == ~(crashed /\ call.fn = "executeFile")

(***************************************************************************)
(* Completion, with two consoles that hold different registries and whose  *)
(* handlers read from each other.                                          *)
(***************************************************************************)
ask == <<"a", "s", "k">>

\* console 1 has ask, which reads from console 2; console 2 has bar, which
\* reads from console 1
CompleteCommands ==
    [s \in Slots |->
        CASE s = 1 -> registerCommand(DefaultCommands, ask, ReadFn(2))
          [] s = 2 -> registerCommand(DefaultCommands, bar, ReadFn(1))
          [] OTHER -> DefaultCommands]

InitComplete ==
    /\ alive = [s \in Slots |-> TRUE]
    /\ commands_ = CompleteCommands
    /\ history_ = [s \in Slots |-> NullSnapshot]
    /\ currentConsole_ = NoConsole
    /\ the_history = emptyHistory_
    /\ fs = [n \in {scriptF} |-> DemoScript]
    /\ stack = <<>>
    /\ call = NoCall
    /\ ret = NoRet
    /\ calls = <<>>
    /\ out = <<>>
    /\ crashed = FALSE
    /\ added = [s \in Slots |-> <<>>]
    /\ fresh = [s \in Slots |-> TRUE]
    /\ lastReg = CompleteCommands
    /\ last = NoLast
    /\ it = NoIt
    /\ comp = NoComp

\* the lines typed: nothing, and the two commands that read
NestLines == {<<>>, ask, bar}

\* the partial words completed: the empty one, one inside quit and exit, one
\* inside ask and bar, and one inside no name
Texts == {<<>>, <<"i", "t">>, <<"a">>, bogus}

\* int start of getCommandCompletions: the word begins the line, or does not
Starts == {0, 1}

NextComplete ==
    \/ \E c \in Slots : RlReserve(c)
    \/ RlEof
    \/ \E line \in NestLines : RlGetLine(line)
    \/ RlAddHistory
    \/ RlDispatch
    \/ RlNested
    \/ \E text \in Texts, start \in Starts : Complete(text, start)
    \/ Generate

SpecComplete == InitComplete /\ [][NextComplete]_vars

Names(ms) == [i \in 1..Len(ms) |-> ms[i].name]

\* the names of console c of which text is a part
Matching(c, text) ==
    {n \in DOMAIN commands_[c] :
        \E pre \in 0..Len(n), post \in 0..Len(n) :
           /\ pre + Len(text) + post = Len(n)
           /\ SubSeq(n, pre + 1, pre + Len(text)) = text}

\* C14: A completion request at a cursor position other than 0 yields no
\* match.  At position 0 the queries state = 0, 1, 2, ... yield only
\* registered names that contain the text, none of them twice, and when the
\* null sentinel has been yielded every such name has been yielded; this is
\* so for a request that follows an earlier one as well, its state = 0 query
\* starting again from the beginning of the registry.
CompletionYieldsMatches ==
    comp.status # "none" =>
       LET names == Names(comp.matches)
           matching == Matching(Top.c, comp.text)
       IN /\ comp.start # 0 => (comp.status = "done" /\ comp.matches = <<>>)
          /\ \A i \in 1..Len(names) : names[i] \in matching
          /\ \A i, j \in 1..Len(names) : names[i] = names[j] => i = j
          /\ (comp.status = "done" /\ comp.start = 0) =>
                {names[i] : i \in 1..Len(names)} = matching

\* a request that follows another one has yielded quit and exit, and then
\* the null sentinel
CompletionYieldsMatchesWitness ==
    /\ ~crashed
    /\ comp.status = "done"
    /\ comp.start = 0
    /\ comp.again
    /\ comp.text = <<"i", "t">>
    /\ Len(comp.matches) = 2

\* C18: Every completion string commandIterator produces lies inside the
\* array allocated for it: the characters copied, the terminator among them,
\* are no more than the array holds.
CompletionFitsBuffer ==
    \A i \in 1..Len(comp.matches) : comp.matches[i].copied <= comp.matches[i].size

\* C20: Every completion query made while a console is blocked in readLine
\* reads, through currentConsole_, that console and its registry:
\* currentConsole_ is not null and is the console of the innermost readLine,
\* also when that readLine was called by a handler of another console.
CompletionReadsTheReader ==
    /\ (In("readLine") /\ Top.stage = "reserved") =>
          /\ currentConsole_ # NoConsole
          /\ currentConsole_ = Top.c
          /\ alive[Top.c]
    /\ (~crashed /\ comp.state > 0) =>
          /\ In("readLine")
          /\ Top.stage = "reserved"
          /\ comp.read = Top.c
          /\ it.c = Top.c
          /\ \A i \in 1..Len(comp.matches) :
                comp.matches[i].name \in DOMAIN commands_[Top.c]

\* console 2, reading inside a handler of console 1, completed a name that
\* only it has
CompletionReadsTheReaderWitness ==
    /\ ~crashed
    /\ Len(stack) = 2
    /\ stack[1].c = 1
    /\ Top.c = 2
    /\ comp.status = "done"
    /\ \E i \in 1..Len(comp.matches) : comp.matches[i].name = bar
    /\ bar \notin DOMAIN commands_[1]
====
